---- MODULE Spec2Model ----
(***************************************************************************)
(* A model of BubbleCounter.py (Python 2): the constructor of              *)
(* BubbleCounter and the loop of BubbleCounter.start(), one action per     *)
(* step of the loop that can fail or be interrupted on its own.            *)
(*                                                                         *)
(* Numbers.  Python's numbers are modelled by exact rationals, records     *)
(* [n, d] in lowest terms with d > 0.  For the integer formats every value *)
(* is a Python int and `/` is Python 2's floor division.  For the float    *)
(* formats `/` is true division; IEEE rounding is idealised to exact       *)
(* arithmetic (the amplitudes of the model are small integers).  A square  *)
(* root is held by its radicand, [rad |-> q] standing for sqrt(q), and two *)
(* roots are compared by comparing radicands.                              *)
(***************************************************************************)
EXTENDS Integers, Sequences, FiniteSets, TLC

\* ------------------------------------------------------------ bounds
\* The longest input stream, in samples.
MaxSamples == 5
\* The largest magnitude of a decoded sample.
MaxAmp == 2

\* The constructor arguments the model tries.
DataFormats == {"S8", "S16_LE", "FLOAT_LE", "U8"}
DataFrequencies == {1000, 1500}
ListenTimes == {0, 1, 2}
MinTimes == {0, 1, 2}

\* ------------------------------------------------------------ numbers
RECURSIVE GCD(_, _)
GCD(a, b) == IF b = 0 THEN a ELSE GCD(b, a % b)

Abs(x) == IF x < 0 THEN -x ELSE x

Rat(n, d) ==
    LET g == GCD(Abs(n), Abs(d))
        s == IF d < 0 THEN -1 ELSE 1
    IN  [n |-> (s * n) \div g, d |-> (s * d) \div g]

Num(i) == [n |-> i, d |-> 1]
RatAdd(x, y) == Rat(x.n * y.d + y.n * x.d, x.d * y.d)
RatSub(x, y) == Rat(x.n * y.d - y.n * x.d, x.d * y.d)
RatMul(x, y) == Rat(x.n * y.n, x.d * y.d)
RatGreater(x, y) == x.n * y.d > y.n * x.d

\* math.sqrt, held by its radicand.
sqrt(x) == [rad |-> x]

\* ------------------------------------------------------------ the class
\* BubbleCounter.FORMATS: arecord's format name -> (struct format, size).
FORMATS ==
    [k \in {"S8", "S16_LE", "S16_BE", "S32_LE", "S32_BE",
            "FLOAT_LE", "FLOAT_BE", "FLOAT64_LE", "FLOAT64_BE"} |->
        CASE k = "S8"         -> <<"b", 1>>
          [] k = "S16_LE"     -> <<"<h", 2>>
          [] k = "S16_BE"     -> <<">h", 2>>
          [] k = "S32_LE"     -> <<"<l", 4>>
          [] k = "S32_BE"     -> <<">l", 4>>
          [] k = "FLOAT_LE"   -> <<"<f", 4>>
          [] k = "FLOAT_BE"   -> <<">f", 4>>
          [] k = "FLOAT64_LE" -> <<"<d", 8>>
          [] k = "FLOAT64_BE" -> <<">d", 8>>]

\* struct.unpack yields a Python float for f and d, an int otherwise.
UnpacksFloat(fmt) == fmt \in {"<f", ">f", "<d", ">d"}

\* Python 2's x / y for an int y: floor division when x is an int too,
\* true division when x is a float.
PyDiv(x, y, isFloat) ==
    IF isFloat THEN Rat(x.n, x.d * y) ELSE Num(x.n \div y)

\* ------------------------------------------------------------ state
VARIABLES
    \* the constructor's arguments
    argFormat, dataFrequency, listenTime, minTimeBetweenBubbles,
    \* the object's fields
    dataFormat, dataSize, samplesPerPeriod, minSamplesBetweenBubbles,
    \* the locals of start()
    totalSampleCount, periodSum, lastPeriodMean,
    periodVarianceSum, lastPeriodStdDev,
    lastBubble, periodBubbleCount,
    \* the output file: the counts written, one per line, and how many of
    \* the lines have been flushed
    outputFile, flushed,
    \* where the program is, how it ended, and why
    pc, result, cause,
    \* history: the magnitudes processed so far, and the candidates found,
    \* each with its sample index and whether it was counted
    stream, candidates

fields == <<dataFormat, dataSize, samplesPerPeriod, minSamplesBetweenBubbles>>
args == <<argFormat, dataFrequency, listenTime, minTimeBetweenBubbles>>
locals == <<totalSampleCount, periodSum, lastPeriodMean, periodVarianceSum,
            lastPeriodStdDev, lastBubble, periodBubbleCount>>
history == <<stream, candidates>>
vars == <<args, fields, locals, outputFile, flushed, pc, result, cause, history>>

\* Before the constructor runs: the caller has chosen the arguments.
Init ==
    /\ argFormat \in DataFormats
    /\ dataFrequency \in DataFrequencies
    /\ listenTime \in ListenTimes
    /\ minTimeBetweenBubbles \in MinTimes
    /\ dataFormat = ""
    /\ dataSize = 0
    /\ samplesPerPeriod = 0
    /\ minSamplesBetweenBubbles = 0
    /\ totalSampleCount = 0
    /\ periodSum = Num(0)
    /\ lastPeriodMean = Num(0)
    /\ periodVarianceSum = Num(0)
    /\ lastPeriodStdDev = sqrt(Num(0))
    /\ lastBubble = 0
    /\ periodBubbleCount = 0
    /\ outputFile = <<>>
    /\ flushed = 0
    /\ pc = "new"
    /\ result = "none"
    /\ cause = "none"
    /\ stream = <<>>
    /\ candidates = <<>>

\* ------------------------------------------------------------ __init__
\* BubbleCounter.__init__ with a key of FORMATS.
Construct ==
    /\ pc = "new"
    /\ argFormat \in DOMAIN FORMATS
    /\ dataFormat' = FORMATS[argFormat][1]
    /\ dataSize' = FORMATS[argFormat][2]
    /\ samplesPerPeriod' = (dataFrequency * listenTime) \div 1000
    /\ minSamplesBetweenBubbles' = (dataFrequency * minTimeBetweenBubbles) \div 1000
    /\ pc' = "constructed"
    /\ UNCHANGED <<args, locals, outputFile, flushed, result, cause, history>>

\* Faulty variant of ConstructKeyError: an unknown key falls back to the
\* default format instead of raising.
ConstructDefaultFormat ==
    /\ pc = "new"
    /\ argFormat \notin DOMAIN FORMATS
    /\ dataFormat' = FORMATS["S32_LE"][1]
    /\ dataSize' = FORMATS["S32_LE"][2]
    /\ samplesPerPeriod' = (dataFrequency * listenTime) \div 1000
    /\ minSamplesBetweenBubbles' = (dataFrequency * minTimeBetweenBubbles) \div 1000
    /\ pc' = "constructed"
    /\ UNCHANGED <<args, locals, outputFile, flushed, result, cause, history>>

\* BubbleCounter.__init__ with any other key: FORMATS[dataFormat] raises
\* KeyError and no object is made.
ConstructKeyError ==
    /\ pc = "new"
    /\ argFormat \notin DOMAIN FORMATS
    /\ pc' = "done"
    /\ result' = "KeyError"
    /\ cause' = "format"
    /\ UNCHANGED <<args, fields, locals, outputFile, flushed, history>>

\* ------------------------------------------------------------ start()
\* Faulty variant of Except: the IOError clause re-raises.
ExceptRaisesIOError(exc) ==
    IF exc = "IOError" THEN "IOError"
    ELSE IF exc = "KeyboardInterrupt" THEN "returned"
    ELSE "NameError"

\* The except clauses of start(), tried in order.  The third names
\* struct.error, but the module imports only unpack from struct: evaluating
\* the clause raises NameError, which leaves start().
Except(exc) ==
    IF exc = "IOError" THEN "returned"
    ELSE IF exc = "KeyboardInterrupt" THEN "returned"
    ELSE "NameError"

\* Faulty variant of Raise: the try block sits inside the loop, so the
\* loop goes on to the next read after the handler.
RaiseAndContinue(exc, why) ==
    /\ pc' = "read"
    /\ result' = result
    /\ cause' = why

\* An exception raised inside the try block.
Raise(exc, why) ==
    /\ pc' = "done"
    /\ result' = Except(exc)
    /\ cause' = why

\* Faulty variant of Start: lastBubble starts before the stream, far enough
\* back for the gap test to pass at the first sample.
StartBeforeStream ==
    /\ pc = "constructed"
    /\ totalSampleCount' = 0
    /\ periodSum' = Num(0)
    /\ lastPeriodMean' = Num(0)
    /\ periodVarianceSum' = Num(0)
    /\ lastPeriodStdDev' = sqrt(Num(0))
    /\ lastBubble' = 0 - minSamplesBetweenBubbles
    /\ periodBubbleCount' = 0
    /\ pc' = "read"
    /\ UNCHANGED <<args, fields, outputFile, flushed, result, cause, history>>

\* start() is called: the loop variables are initialised.
Start ==
    /\ pc = "constructed"
    /\ totalSampleCount' = 0
    /\ periodSum' = Num(0)
    /\ lastPeriodMean' = Num(0)
    /\ periodVarianceSum' = Num(0)
    /\ lastPeriodStdDev' = sqrt(Num(0))
    /\ lastBubble' = 0
    /\ periodBubbleCount' = 0
    /\ pc' = "read"
    /\ UNCHANGED <<args, fields, outputFile, flushed, result, cause, history>>

\* Faulty variant of IsBubble: >= for >.
IsBubbleNonStrict(sampleVariance, stdDev) ==
    ~ RatGreater(RatMul(Num(4), stdDev.rad), sampleVariance)

\* sqrt(sampleVariance) > lastPeriodStdDev * 2.0
IsBubble(sampleVariance, stdDev) ==
    RatGreater(sampleVariance, RatMul(Num(4), stdDev.rad))

\* Faulty variant of NextBubbleMinSampleCount: the gap is left out.
NextBubbleMinNoGap(last, minSamples) == last

\* Faulty variant of NextBubbleMinSampleCount: the gap is one sample short.
NextBubbleMinShortGap(last, minSamples) == last + minSamples - 1

\* lastBubble + self.minSamplesBetweenBubbles
NextBubbleMinSampleCount(last, minSamples) == last + minSamples

\* Faulty variants of EnoughGap: >= for >, and < for >.
EnoughGapNonStrict(count, nextBubbleMinSampleCount) ==
    count >= nextBubbleMinSampleCount

EnoughGapReversed(count, nextBubbleMinSampleCount) ==
    count < nextBubbleMinSampleCount

\* totalSampleCount > nextBubbleMinSampleCount
EnoughGap(count, nextBubbleMinSampleCount) == count > nextBubbleMinSampleCount

\* Faulty variant of LastBubbleAfter: only a counted bubble moves lastBubble.
LastBubbleOnlyCounted(bubble, counted, count, last) ==
    IF counted THEN count ELSE last

\* lastBubble = totalSampleCount, for every bubble: the assignment comes
\* before the gap test, so whether the bubble is counted plays no part.
LastBubbleAfter(bubble, counted, count, last) ==
    IF bubble THEN count ELSE last

\* Faulty variant of AtPeriodEnd: the period ends one sample late.
AtPeriodEndLate(count, perPeriod) == count % perPeriod = 1 % perPeriod

\* totalSampleCount % self.samplesPerPeriod == 0
AtPeriodEnd(count, perPeriod) == count % perPeriod = 0

\* One pass of the loop body up to the period test: a full chunk is read,
\* unpacked and counted.
Sample ==
    /\ pc = "read"
    /\ totalSampleCount < MaxSamples
    /\ \E sampleValue \in -MaxAmp .. MaxAmp :
        LET sampleAbs == Num(Abs(sampleValue))
            count == totalSampleCount + 1
            sampleVariance ==
                RatMul(RatSub(sampleAbs, lastPeriodMean),
                       RatSub(sampleAbs, lastPeriodMean))
            bubble == IsBubble(sampleVariance, lastPeriodStdDev)
            nextBubbleMinSampleCount ==
                NextBubbleMinSampleCount(lastBubble, minSamplesBetweenBubbles)
            counted == bubble /\ EnoughGap(count, nextBubbleMinSampleCount)
        IN  /\ totalSampleCount' = count
            /\ periodSum' = RatAdd(periodSum, sampleAbs)
            /\ periodVarianceSum' = RatAdd(periodVarianceSum, sampleVariance)
            /\ lastBubble' = LastBubbleAfter(bubble, counted, count, lastBubble)
            /\ periodBubbleCount' =
                   IF counted THEN periodBubbleCount + 1 ELSE periodBubbleCount
            /\ stream' = Append(stream, sampleAbs.n)
            /\ candidates' =
                   IF bubble
                   THEN Append(candidates, [at |-> count, counted |-> counted])
                   ELSE candidates
            /\ IF samplesPerPeriod = 0
               THEN Raise("ZeroDivisionError", "zerodiv")
               ELSE /\ pc' = IF AtPeriodEnd(count, samplesPerPeriod)
                            THEN "write" ELSE "read"
                    /\ UNCHANGED <<result, cause>>
    /\ UNCHANGED <<args, fields, lastPeriodMean, lastPeriodStdDev,
                   outputFile, flushed>>

\* The read returns '': iter() stops and start() returns.
EndOfStream ==
    /\ pc = "read"
    /\ pc' = "done"
    /\ result' = "returned"
    /\ cause' = "eof"
    /\ UNCHANGED <<args, fields, locals, outputFile, flushed, history>>

\* Faulty variant of ShortChunk: the count of the unfinished period is
\* written when the stream breaks off.
ShortChunkEmitsPartial ==
    /\ pc = "read"
    /\ \E n \in 1 .. dataSize - 1 : Raise("struct.error", "short")
    /\ outputFile' = Append(outputFile, periodBubbleCount)
    /\ UNCHANGED <<args, fields, locals, flushed, history>>

\* The read returns at least one byte but fewer than dataSize: unpack
\* raises struct.error.
ShortChunk ==
    /\ pc = "read"
    /\ \E n \in 1 .. dataSize - 1 : Raise("struct.error", "short")
    /\ UNCHANGED <<args, fields, locals, outputFile, flushed, history>>

\* The read raises IOError.
ReadIOError ==
    /\ pc = "read"
    /\ Raise("IOError", "read")
    /\ UNCHANGED <<args, fields, locals, outputFile, flushed, history>>

\* self.outputFile.write('{count}\n'.format(count=periodBubbleCount)); a
\* line is held by the count it shows.
Write ==
    /\ pc = "write"
    /\ outputFile' = Append(outputFile, periodBubbleCount)
    /\ pc' = "flush"
    /\ UNCHANGED <<args, fields, locals, flushed, result, cause, history>>

\* The write raises IOError.
WriteIOError ==
    /\ pc = "write"
    /\ Raise("IOError", "write")
    /\ UNCHANGED <<args, fields, locals, outputFile, flushed, history>>

\* Faulty variant of Flush: the line stays in the buffer.
FlushSkipped ==
    /\ pc = "flush"
    /\ pc' = "save"
    /\ UNCHANGED <<args, fields, locals, outputFile, flushed, result, cause,
                   history>>

\* self.outputFile.flush()
Flush ==
    /\ pc = "flush"
    /\ flushed' = Len(outputFile)
    /\ pc' = "save"
    /\ UNCHANGED <<args, fields, locals, outputFile, result, cause, history>>

\* The flush raises IOError.
FlushIOError ==
    /\ pc = "flush"
    /\ Raise("IOError", "flush")
    /\ UNCHANGED <<args, fields, locals, outputFile, flushed, history>>

\* Faulty variant of SavePeriod: the period's sums are not reset, so they
\* run on into the next period.
SavePeriodKeepsSums ==
    /\ pc = "save"
    /\ lastPeriodMean' =
           PyDiv(periodSum, samplesPerPeriod, UnpacksFloat(dataFormat))
    /\ lastPeriodStdDev' =
           sqrt(PyDiv(periodVarianceSum, samplesPerPeriod, UnpacksFloat(dataFormat)))
    /\ periodBubbleCount' = 0
    /\ pc' = "read"
    /\ UNCHANGED <<args, fields, totalSampleCount, lastBubble, periodSum,
                   periodVarianceSum, outputFile, flushed, result, cause,
                   history>>

\* Faulty variant of SavePeriod: the debounce state is reset with the
\* period's sums.
SavePeriodResetsLastBubble ==
    /\ pc = "save"
    /\ lastPeriodMean' =
           PyDiv(periodSum, samplesPerPeriod, UnpacksFloat(dataFormat))
    /\ lastPeriodStdDev' =
           sqrt(PyDiv(periodVarianceSum, samplesPerPeriod, UnpacksFloat(dataFormat)))
    /\ periodSum' = Num(0)
    /\ periodVarianceSum' = Num(0)
    /\ periodBubbleCount' = 0
    /\ lastBubble' = 0
    /\ pc' = "read"
    /\ UNCHANGED <<args, fields, totalSampleCount,
                   outputFile, flushed, result, cause, history>>

\* Save this period's stats and reset the period's sums.
SavePeriod ==
    /\ pc = "save"
    /\ lastPeriodMean' =
           PyDiv(periodSum, samplesPerPeriod, UnpacksFloat(dataFormat))
    /\ lastPeriodStdDev' =
           sqrt(PyDiv(periodVarianceSum, samplesPerPeriod, UnpacksFloat(dataFormat)))
    /\ periodSum' = Num(0)
    /\ periodVarianceSum' = Num(0)
    /\ periodBubbleCount' = 0
    /\ pc' = "read"
    /\ UNCHANGED <<args, fields, totalSampleCount, lastBubble,
                   outputFile, flushed, result, cause, history>>

\* Faulty variant of Interrupt: the handler writes out the count of the
\* unfinished period.
InterruptEmitsPartial ==
    /\ pc \in {"read", "write", "flush", "save"}
    /\ Raise("KeyboardInterrupt", "interrupt")
    /\ outputFile' = Append(outputFile, periodBubbleCount)
    /\ UNCHANGED <<args, fields, locals, flushed, history>>

\* KeyboardInterrupt arrives while start() is inside the try block.
Interrupt ==
    /\ pc \in {"read", "write", "flush", "save"}
    /\ Raise("KeyboardInterrupt", "interrupt")
    /\ UNCHANGED <<args, fields, locals, outputFile, flushed, history>>

Next ==
    \/ Construct
    \/ ConstructKeyError
    \/ Start
    \/ Sample
    \/ EndOfStream
    \/ ShortChunk
    \/ ReadIOError
    \/ Write
    \/ WriteIOError
    \/ Flush
    \/ FlushIOError
    \/ SavePeriod
    \/ Interrupt

Spec == Init /\ [][Next]_vars

\* The interpreter keeps running the program, and the input stream is
\* finite: a step of the program that can be taken is taken, and a read
\* that no further sample answers returns the end of the stream, clean or
\* short.  Failures and interrupts may or may not come.
ProgramStep ==
    \/ Construct
    \/ ConstructKeyError
    \/ Start
    \/ EndOfStream
    \/ ShortChunk
    \/ Write
    \/ Flush
    \/ SavePeriod

LiveSpec == Spec /\ WF_vars(ProgramStep)

\* ------------------------------------------------------------ types
TypeOK ==
    /\ pc \in {"new", "constructed", "read", "write", "flush", "save", "done"}
    /\ result \in {"none", "returned", "KeyError", "NameError"}
    /\ totalSampleCount \in 0 .. MaxSamples
    /\ Len(stream) = totalSampleCount
    /\ flushed \in 0 .. Len(outputFile)

\* ------------------------------------------------------------ properties
\* The stream ended by itself: no I/O failure, no interruption.
EndedAtEof == pc = "done" /\ cause = "eof"
EndedShort == pc = "done" /\ cause = "short"
EndedOnIOError == pc = "done" /\ cause \in {"read", "write", "flush"}

\* The candidates counted as bubbles among the samples of period j.
CountedIn(j) ==
    Cardinality({k \in 1 .. Len(candidates) :
        /\ candidates[k].counted
        /\ candidates[k].at > (j - 1) * samplesPerPeriod
        /\ candidates[k].at <= j * samplesPerPeriod})

\* C1: with samplesPerPeriod >= 1, the lines written number
\* floor(totalSampleCount / samplesPerPeriod) at every pass of the loop and
\* when a well-formed stream has ended; the j-th line is being written in
\* the very pass where the sample index reaches j * samplesPerPeriod (one
\* line short until the write, never a line early), and the j-th line shows
\* the count of period j.
C1_OneLinePerPeriod ==
    samplesPerPeriod >= 1 =>
        /\ (pc \in {"read", "flush", "save"} \/ EndedAtEof) =>
               Len(outputFile) = totalSampleCount \div samplesPerPeriod
        /\ pc = "write" =>
               /\ totalSampleCount % samplesPerPeriod = 0
               /\ Len(outputFile) + 1 = totalSampleCount \div samplesPerPeriod
        /\ \A j \in 1 .. Len(outputFile) : outputFile[j] = CountedIn(j)

\* A stream of exactly two periods has ended and left two different counts.
C1_Witness ==
    /\ EndedAtEof
    /\ samplesPerPeriod >= 2
    /\ totalSampleCount = 2 * samplesPerPeriod
    /\ Len(outputFile) = 2
    /\ outputFile[1] /= outputFile[2]

\* C2: when k complete periods are followed by a short chunk, exactly k
\* lines have been written: the partial chunk adds no output.
C2_PartialChunkNoOutput ==
    (EndedShort /\ samplesPerPeriod >= 1
        /\ totalSampleCount % samplesPerPeriod = 0) =>
        Len(outputFile) = totalSampleCount \div samplesPerPeriod

\* Two complete periods, then a short chunk.
C2_Witness ==
    /\ EndedShort
    /\ samplesPerPeriod >= 1
    /\ totalSampleCount = 2 * samplesPerPeriod
    /\ Len(outputFile) = 2

\* C3: a short trailing chunk ends start() normally: no exception reaches
\* the caller.
C3_ShortChunkGraceful == EndedShort => result = "returned"

\* The distance in samples from candidate k - 1 to candidate k.
GapBefore(k) == candidates[k].at - candidates[k - 1].at

\* C4: a candidate that follows the previous candidate at a gap strictly
\* less than minSamplesBetweenBubbles is never counted.
C4_ClosePairNotCounted ==
    \A k \in 2 .. Len(candidates) :
        GapBefore(k) < minSamplesBetweenBubbles => ~ candidates[k].counted

\* A counted candidate is followed, closer than the minimum gap, by a
\* candidate that is not counted.
C4_Witness ==
    \E k \in 2 .. Len(candidates) :
        /\ GapBefore(k) < minSamplesBetweenBubbles
        /\ candidates[k - 1].counted
        /\ ~ candidates[k].counted

\* C5 as stated: a candidate at a gap greater than or equal to
\* minSamplesBetweenBubbles from the previous candidate is counted.
C5_DistantPairCounted ==
    \A k \in 2 .. Len(candidates) :
        GapBefore(k) >= minSamplesBetweenBubbles => candidates[k].counted

\* C5 as amended: a candidate at a gap strictly greater than
\* minSamplesBetweenBubbles from the previous candidate is counted, and one
\* at a gap exactly equal to it is not.
C5_DistantPairStrict ==
    \A k \in 2 .. Len(candidates) :
        /\ GapBefore(k) > minSamplesBetweenBubbles => candidates[k].counted
        /\ GapBefore(k) = minSamplesBetweenBubbles => ~ candidates[k].counted

\* One candidate at exactly the minimum gap, not counted, and one beyond it,
\* counted.
C5_Witness ==
    /\ minSamplesBetweenBubbles >= 1
    /\ \E k \in 2 .. Len(candidates) :
           GapBefore(k) = minSamplesBetweenBubbles /\ ~ candidates[k].counted
    /\ \E k \in 2 .. Len(candidates) :
           GapBefore(k) > minSamplesBetweenBubbles /\ candidates[k].counted

\* Every sample so far has the same magnitude.
ConstantStream == \A i, j \in 1 .. Len(stream) : stream[i] = stream[j]

\* C6: on a constant stream no sample after the first period is a
\* candidate, and every line after the first shows 0.
C6_ConstantStreamSilent ==
    (samplesPerPeriod >= 1 /\ ConstantStream) =>
        /\ \A k \in 1 .. Len(candidates) : candidates[k].at <= samplesPerPeriod
        /\ \A j \in 2 .. Len(outputFile) : outputFile[j] = 0
        /\ totalSampleCount > samplesPerPeriod => periodBubbleCount = 0

\* A constant nonzero stream has been heard into a period whose baseline
\* standard deviation is 0 and three lines are out.
C6_Witness ==
    /\ ConstantStream
    /\ Len(stream) >= 1
    /\ stream[1] > 0
    /\ Len(outputFile) >= 3
    /\ lastPeriodStdDev = sqrt(Num(0))
    /\ lastPeriodMean = Num(stream[1])

\* C7 as stated: the first candidate of a stream is always counted.
C7_FirstCandidateCounted ==
    Len(candidates) >= 1 => candidates[1].counted

\* C7 as amended: the first candidate of a stream is counted exactly when
\* its sample index is greater than minSamplesBetweenBubbles (lastBubble
\* starts at 0).
C7_FirstCandidateAfterGap ==
    Len(candidates) >= 1 =>
        (candidates[1].counted <=> candidates[1].at > minSamplesBetweenBubbles)

\* A first candidate beyond the minimum gap from the start, counted.
C7_Witness ==
    /\ minSamplesBetweenBubbles >= 1
    /\ Len(candidates) >= 1
    /\ candidates[1].counted

\* The first period has been heard and was all zeros.
FirstPeriodSilent ==
    /\ Len(stream) >= samplesPerPeriod
    /\ \A i \in 1 .. samplesPerPeriod : stream[i] = 0

\* The second period has been heard; exactly one of its samples is nonzero
\* and it lies more than minSamplesBetweenBubbles samples into the stream.
SecondPeriodOneEvent ==
    /\ Len(stream) >= 2 * samplesPerPeriod
    /\ \E i \in samplesPerPeriod + 1 .. 2 * samplesPerPeriod :
           /\ stream[i] /= 0
           /\ i > minSamplesBetweenBubbles
           /\ \A j \in samplesPerPeriod + 1 .. 2 * samplesPerPeriod :
                  j /= i => stream[j] = 0

\* C8: a first period of zeros writes 0 and leaves the baseline at mean 0
\* and standard deviation 0; a second period with exactly one nonzero
\* sample, more than minSamplesBetweenBubbles samples into the stream, then
\* writes 1.
C8_IsolatedEventAfterSilence ==
    (samplesPerPeriod >= 1 /\ FirstPeriodSilent) =>
        /\ Len(outputFile) >= 1 => outputFile[1] = 0
        /\ (pc = "read" /\ totalSampleCount = samplesPerPeriod) =>
               (lastPeriodMean = Num(0) /\ lastPeriodStdDev = sqrt(Num(0)))
        /\ (SecondPeriodOneEvent /\ Len(outputFile) >= 2) => outputFile[2] = 1

\* Silence, then one event in a second period of several samples, with a
\* minimum gap of several samples: the lines are 0 and 1.
C8_Witness ==
    /\ samplesPerPeriod >= 2
    /\ minSamplesBetweenBubbles >= 2
    /\ FirstPeriodSilent
    /\ SecondPeriodOneEvent
    /\ Len(outputFile) = 2
    /\ outputFile = <<0, 1>>

\* C9 as stated: an I/O failure of the read, the write or the flush leaves
\* start() as an IOError.
C9_IOErrorSurfaces == EndedOnIOError => result = "IOError"

\* C9 as amended: an IOError raised by the read, the write or the flush is
\* caught inside start(), which stops there and returns normally: the
\* failure does not reach the caller.
C9_IOErrorSwallowed == EndedOnIOError => result = "returned"

\* A flush failed after a line had been written, and start() returned.
C9_Witness ==
    /\ pc = "done"
    /\ cause = "flush"
    /\ result = "returned"
    /\ Len(outputFile) >= 1
    /\ flushed < Len(outputFile)

\* C10: with a format key outside FORMATS the constructor fails with
\* KeyError; no sample is ever read, no line written, and start() never
\* runs.
C10_UnsupportedFormatFailsEarly ==
    argFormat \notin DOMAIN FORMATS =>
        /\ pc \in {"new", "done"}
        /\ pc = "done" => (result = "KeyError" /\ cause = "format")
        /\ stream = <<>>
        /\ totalSampleCount = 0
        /\ outputFile = <<>>
        /\ dataFormat = ""

\* The constructor has failed on an unsupported key.
C10_Witness ==
    /\ argFormat \notin DOMAIN FORMATS
    /\ pc = "done"
    /\ result = "KeyError"

EndedOnInterrupt == pc = "done" /\ cause = "interrupt"

C12_FlushedBeforeNextRead ==
    /\ pc \in {"read", "write", "save"} => flushed = Len(outputFile)
    /\ pc = "flush" => flushed + 1 = Len(outputFile)

\* Back at the read after two lines, both flushed.
C12_Witness ==
    /\ pc = "read"
    /\ Len(outputFile) = 2
    /\ flushed = 2

\* The sample index of the most recent candidate, 0 before the first.
LastCandidateAt ==
    IF candidates = <<>> THEN 0 ELSE candidates[Len(candidates)].at

\* C13: lastBubble is the index of the most recent candidate, counted or
\* not; so a candidate within minSamplesBetweenBubbles samples of a
\* candidate that was not counted is not counted either, however far back
\* the last counted one lies.
C13_GapFromLastCandidate ==
    /\ lastBubble = LastCandidateAt
    /\ \A k \in 2 .. Len(candidates) :
           (~ candidates[k - 1].counted
               /\ GapBefore(k) <= minSamplesBetweenBubbles) =>
               ~ candidates[k].counted

\* A candidate more than the minimum gap after the last counted one, but
\* within it of a later candidate that was not counted: not counted.
C13_Witness ==
    \E j, k \in 1 .. Len(candidates) :
        /\ j + 1 < k
        /\ candidates[j].counted
        /\ \A m \in j + 1 .. k : ~ candidates[m].counted
        /\ candidates[k].at - candidates[j].at > minSamplesBetweenBubbles
        /\ GapBefore(k) <= minSamplesBetweenBubbles

\* The period, counted from 1, that sample i belongs to.
PeriodOf(i) == (i - 1) \div samplesPerPeriod + 1

\* The steps of a period boundary: the write, the flush and the save.
AtBoundary == pc \in {"write", "flush", "save"}

\* A candidate of a new period follows, within the minimum gap, a candidate
\* of an earlier period.
CloseAcrossBoundary(k) ==
    /\ samplesPerPeriod >= 1
    /\ PeriodOf(candidates[k].at) /= PeriodOf(candidates[k - 1].at)
    /\ GapBefore(k) <= minSamplesBetweenBubbles

\* C14: the steps of a period boundary leave lastBubble and
\* totalSampleCount as they are, and the last of them leaves periodSum,
\* periodVarianceSum and periodBubbleCount at zero; so a candidate of a new
\* period within minSamplesBetweenBubbles samples of a candidate of the
\* period before is not counted.
C14_BoundaryKeepsDebounce ==
    /\ [][AtBoundary =>
            /\ lastBubble' = lastBubble
            /\ totalSampleCount' = totalSampleCount
            /\ (pc = "save" /\ pc' = "read") =>
                   /\ periodSum' = Num(0)
                   /\ periodVarianceSum' = Num(0)
                   /\ periodBubbleCount' = 0]_vars
    /\ [](\A k \in 2 .. Len(candidates) :
             CloseAcrossBoundary(k) => ~ candidates[k].counted)

\* The first sample of a new period is a candidate right after a candidate
\* that closed the period before, and is not counted.
C14_Witness ==
    /\ minSamplesBetweenBubbles >= 1
    /\ \E k \in 2 .. Len(candidates) :
           /\ CloseAcrossBoundary(k)
           /\ candidates[k - 1].counted
           /\ ~ candidates[k].counted

\* The sum of f over the samples first .. last of the stream.
RECURSIVE SumOver(_, _, _)
SumOver(f(_), first, last) ==
    IF first > last THEN Num(0)
    ELSE RatAdd(SumOver(f, first, last - 1), f(last))

\* The sums a complete period p gathers: of the magnitudes of its samples,
\* and of their squared deviations from the mean that period p - 1 left.
PeriodSumOf(p) ==
    LET Magnitude(i) == Num(stream[i])
    IN  SumOver(Magnitude, (p - 1) * samplesPerPeriod + 1, p * samplesPerPeriod)

\* The mean that period p leaves behind: 0 before the first period.
MeanAfter(p) ==
    IF p = 0 THEN Num(0)
    ELSE PyDiv(PeriodSumOf(p), samplesPerPeriod, UnpacksFloat(dataFormat))

PeriodVarianceSumOf(p) ==
    LET Deviation(i) ==
            RatMul(RatSub(Num(stream[i]), MeanAfter(p - 1)),
                   RatSub(Num(stream[i]), MeanAfter(p - 1)))
    IN  SumOver(Deviation, (p - 1) * samplesPerPeriod + 1, p * samplesPerPeriod)

\* The variance that period p leaves behind: 0 before the first period.
VarianceAfter(p) ==
    IF p = 0 THEN Num(0)
    ELSE PyDiv(PeriodVarianceSumOf(p), samplesPerPeriod,
               UnpacksFloat(dataFormat))

\* The periods whose stats have been saved: all the complete ones, but for
\* the one whose boundary is under way.
PeriodsSaved ==
    IF AtBoundary
    THEN totalSampleCount \div samplesPerPeriod - 1
    ELSE totalSampleCount \div samplesPerPeriod

\* C15: while the loop runs, the baseline is the one the last saved period
\* left: 0 and 0 throughout the first period, the same for every sample of
\* a period, and in period p the mean of the samples of period p - 1 and
\* the root of their mean squared deviation from the mean of period p - 2.
C15_BaselineLagsOnePeriod ==
    (samplesPerPeriod >= 1 /\ pc \in {"read", "write", "flush", "save"}) =>
        /\ lastPeriodMean = MeanAfter(PeriodsSaved)
        /\ lastPeriodStdDev = sqrt(VarianceAfter(PeriodsSaved))

\* In the third period, with a baseline that differs from the one the
\* first period left.
C15_Witness ==
    /\ samplesPerPeriod >= 2
    /\ pc = "read"
    /\ PeriodsSaved = 2
    /\ lastPeriodMean /= Num(0)
    /\ lastPeriodStdDev /= sqrt(Num(0))
    /\ MeanAfter(1) /= MeanAfter(2)
    /\ VarianceAfter(1) /= VarianceAfter(2)

\* C16: after a period boundary the baseline mean times samplesPerPeriod is
\* the period's sum of magnitudes, and the square of the baseline standard
\* deviation times samplesPerPeriod is the period's sum of squared
\* deviations: both quotients are exact.
C16_ExactBaseline ==
    (samplesPerPeriod >= 1 /\ pc = "read" /\ PeriodsSaved >= 1) =>
        /\ RatMul(lastPeriodMean, Num(samplesPerPeriod)) =
               PeriodSumOf(PeriodsSaved)
        /\ RatMul(lastPeriodStdDev.rad, Num(samplesPerPeriod)) =
               PeriodVarianceSumOf(PeriodsSaved)

\* A sample was heard at index i.
IsCandidateAt(i) == \E k \in 1 .. Len(candidates) : candidates[k].at = i

\* C17: until the first period has completed, a sample is a candidate
\* exactly when its magnitude is not zero.
C17_BootstrapUnfiltered ==
    \A i \in 1 .. Len(stream) :
        (samplesPerPeriod = 0 \/ i <= samplesPerPeriod) =>
            (IsCandidateAt(i) <=> stream[i] /= 0)

\* A complete first period with a zero sample, which is no candidate, and
\* a nonzero one, which is.
C17_Witness ==
    /\ samplesPerPeriod >= 2
    /\ Len(stream) >= samplesPerPeriod
    /\ \E i, j \in 1 .. samplesPerPeriod :
           /\ stream[i] = 0 /\ ~ IsCandidateAt(i)
           /\ stream[j] /= 0 /\ IsCandidateAt(j)

\* C18: the loop ends and stays ended; and once the read has returned no
\* bytes or too few, or an interrupt has come, nothing more is read.
C18_LoopTerminates ==
    /\ [](cause \in {"eof", "short", "interrupt"} => pc = "done")
    /\ [][pc = "done" => (pc' = "done" /\ stream' = stream)]_vars
    /\ <>[](pc = "done")

\* The loop has ended on a short chunk after hearing samples.
C18_Witness ==
    /\ pc = "done"
    /\ cause = "short"
    /\ totalSampleCount >= 2

\* The most bubbles a period can count: ceil(samplesPerPeriod /
\* (minSamplesBetweenBubbles + 1)).
MostPerPeriod ==
    (samplesPerPeriod + minSamplesBetweenBubbles)
        \div (minSamplesBetweenBubbles + 1)

\* C19: any two counted bubbles, of one period or of two, lie more than
\* minSamplesBetweenBubbles samples apart; lastBubble never exceeds
\* totalSampleCount; and no line shows more than
\* ceil(samplesPerPeriod / (minSamplesBetweenBubbles + 1)).
C19_CountedBubblesApart ==
    /\ lastBubble <= totalSampleCount
    /\ \A j, k \in 1 .. Len(candidates) :
           (j < k /\ candidates[j].counted /\ candidates[k].counted) =>
               candidates[k].at - candidates[j].at > minSamplesBetweenBubbles
    /\ samplesPerPeriod >= 1 =>
           \A j \in 1 .. Len(outputFile) : outputFile[j] <= MostPerPeriod

\* Two bubbles counted as close as the gap allows, with rejected
\* candidates around them, and a line that shows the most a period can
\* count.
C19_Witness ==
    /\ minSamplesBetweenBubbles >= 1
    /\ samplesPerPeriod >= 2
    /\ \E j, k \in 1 .. Len(candidates) :
           /\ candidates[j].counted
           /\ candidates[k].counted
           /\ candidates[k].at - candidates[j].at = minSamplesBetweenBubbles + 1
    /\ \E k \in 1 .. Len(candidates) : ~ candidates[k].counted
    /\ \E j \in 1 .. Len(outputFile) : outputFile[j] = MostPerPeriod

\* The first period has been heard and none of its samples was zero.
FirstPeriodAllNonzero ==
    /\ Len(stream) >= samplesPerPeriod
    /\ \A i \in 1 .. samplesPerPeriod : stream[i] /= 0

\* C20: with minSamplesBetweenBubbles >= 1 and a first period without a
\* zero sample, no candidate of the first period is counted and the first
\* line shows 0.
C20_NoisyBootstrapCountsNothing ==
    (minSamplesBetweenBubbles >= 1 /\ samplesPerPeriod >= 1
        /\ FirstPeriodAllNonzero) =>
        /\ \A k \in 1 .. Len(candidates) :
               candidates[k].at <= samplesPerPeriod => ~ candidates[k].counted
        /\ Len(outputFile) >= 1 => outputFile[1] = 0

\* A first period longer than the minimum gap, every sample of it a
\* candidate, and the line written for it.
C20_Witness ==
    /\ minSamplesBetweenBubbles >= 1
    /\ samplesPerPeriod > minSamplesBetweenBubbles
    /\ FirstPeriodAllNonzero
    /\ \A i \in 1 .. samplesPerPeriod : IsCandidateAt(i)
    /\ Len(outputFile) >= 1
    /\ outputFile[1] = 0
====
